---------------------------- MODULE Spec2Model ----------------------------
(***************************************************************************)
(* Model of cmd/gemini/root.go: runJob (the run coordinator and the        *)
(* reporter goroutine it starts) and Job (the worker goroutine), with the  *)
(* unbuffered channel c, the two contexts and the two wait groups.         *)
(*                                                                         *)
(* Atomicity: a goroutine's step runs from one point where it can block or *)
(* be overtaken (the select at line 262, the external call, a send on c,   *)
(* a Wait) to the next.  A send on the unbuffered c and its receive are one *)
(* joint step, which includes the reporter's merge into its own local      *)
(* testRes (line 198); what the reporter does next (lines 199-209: print,  *)
(* cancelWorkers, return) is a step of its own, which the released worker  *)
(* may overtake.                                                           *)
(***************************************************************************)
EXTENDS Integers, FiniteSets, Sequences, TLC

\* ---------------------------------------------------------------- bounds
\* Largest number of worker goroutines, len(schema.Tables) * concurrency.
MaxWorkers == 2
\* Cap on the number of operations all workers start in one run (the loops
\* themselves are unbounded).
MaxOps == 3
\* The handoff period of line 281 (1000 in the source), scaled down so that
\* iterations with and without a periodic handoff occur within MaxOps.
BatchSize == 2

\* Launch loop of runJob: tables of the schema, --concurrency and
\* --max-pk-per-thread are drawn from 0..MaxTables, 0..MaxConcurrency, 0..MaxPk.
MaxTables == 2
MaxConcurrency == 3
MaxPk == 3

\* Merge algebra: the counters merged are those whose four fields sum to at
\* most MaxCount.
MaxCount == 2

\* ------------------------------------------------------------- constants
writeMode == "write"
readMode == "read"
mixedMode == "mixed"
Modes == {writeMode, readMode, mixedMode}

\* How the external statement generator and session behave in this run.
\* "arbitrary": every call may succeed or fail.  "mutateFails": GenMutateStmt
\* always succeeds and Session.Mutate always fails.
Sessions == {"arbitrary", "mutateFails"}

VARIABLES
    mode,           \* flag --mode
    failFast,       \* flag --fail-fast
    session,        \* behaviour of the external collaborators
    wpc,            \* wpc[w]: position of worker w in Job
    testStatus,     \* testStatus[w]: Job's local Status
    i,              \* i[w]: Job's iteration index
    testRes,        \* the reporter's running total
    apc,            \* position of the reporter goroutine
    timerFired,     \* timer.C holds a value
    workerCtx,      \* workerCtx is cancelled
    reporterCtx,    \* reporterCtx is cancelled
    workers,        \* counter of the workers wait group
    reporter,       \* counter of the reporter wait group
    cpc,            \* position of runJob
    hist,           \* history: what has happened so far (not program state)
    tables,         \* len(schema.Tables)
    concurrency,    \* flag --concurrency
    pkNumberPerThread, \* flag --max-pk-per-thread
    p,              \* the PartitionRange values built so far, in launch order
    tableIdx,       \* tables the outer loop of line 160 has finished
    launchI,        \* i of the inner loop of line 161
    order           \* history: the workers whose counter was merged, in order

vars == <<mode, failFast, session, wpc, testStatus, i, testRes, apc, timerFired,
          workerCtx, reporterCtx, workers, reporter, cpc, hist,
          tables, concurrency, pkNumberPerThread, p, tableIdx, launchI,
          order>>

\* What the launch loop of lines 160-169 reads and writes; fixed afterwards.
launchVars == <<tables, concurrency, pkNumberPerThread, p, tableIdx, launchI>>

\* Fixed while the goroutines run.
cfgVars == <<mode, failFast, session, launchVars, order>>

\* ----------------------------------------------------------------- Status
Zero == [WriteOps |-> 0, WriteErrors |-> 0, ReadOps |-> 0, ReadErrors |-> 0]

\* Merge with the ReadErrors line adding the wrong field of r.
MergeAddsWrongField(r, sum) ==
    [WriteOps    |-> sum.WriteOps + r.WriteOps,
     WriteErrors |-> sum.WriteErrors + r.WriteErrors,
     ReadOps     |-> sum.ReadOps + r.ReadOps,
     ReadErrors  |-> sum.ReadErrors + r.ReadOps]

\* Merge storing the ReadErrors of the counter received instead of adding them.
MergeOverwritesReadErrors(r, sum) ==
    [WriteOps    |-> sum.WriteOps + r.WriteOps,
     WriteErrors |-> sum.WriteErrors + r.WriteErrors,
     ReadOps     |-> sum.ReadOps + r.ReadOps,
     ReadErrors  |-> r.ReadErrors]

\* (r *Status) Merge(sum): adds r into *sum field by field and returns *sum.
Merge(r, sum) ==
    [WriteOps    |-> sum.WriteOps + r.WriteOps,
     WriteErrors |-> sum.WriteErrors + r.WriteErrors,
     ReadOps     |-> sum.ReadOps + r.ReadOps,
     ReadErrors  |-> sum.ReadErrors + r.ReadErrors]

\* Field-wise sum, for the history of what was sent (independent of Merge).
Plus(a, b) ==
    [f \in DOMAIN a |-> a[f] + b[f]]

\* ------------------------------------------------------------ operations
GenResults == {"ok", "err"}
MutateResults == {"ok", "err"}
CheckResults == {"ok", "nodata", "err"}

\* mutationJob counting an attempt only once s.Mutate has succeeded.
mutationJobCountsSuccesses(st, gen, mut) ==
    IF gen = "err" \/ mut = "err"
    THEN [st EXCEPT !.WriteErrors = @ + 1]
    ELSE [st EXCEPT !.WriteOps = @ + 1]

\* mutationJob counting an attempt although no statement was generated.
mutationJobCountsFailedGeneration(st, gen, mut) ==
    LET attempted == [st EXCEPT !.WriteOps = @ + 1]
    IN  IF gen = "err" \/ mut = "err"
        THEN [attempted EXCEPT !.WriteErrors = @ + 1]
        ELSE attempted

\* mutationJob: gen is the result of GenMutateStmt, mut that of s.Mutate.
mutationJob(st, gen, mut) ==
    IF gen = "err"
    THEN [st EXCEPT !.WriteErrors = @ + 1]
    ELSE LET attempted == [st EXCEPT !.WriteOps = @ + 1]
         IN  IF mut = "err"
             THEN [attempted EXCEPT !.WriteErrors = @ + 1]
             ELSE attempted

\* mutationJob, lines 222-232: Session.Mutate is called only with a statement.
MutateCalled(gen) == gen = "ok"

\* validationJob counting "no data" as a read failure.
validationJobCountsNoData(st, chk) ==
    IF chk = "ok"
    THEN [st EXCEPT !.ReadOps = @ + 1]
    ELSE [st EXCEPT !.ReadErrors = @ + 1]

\* validationJob: chk is the result of s.Check.
validationJob(st, chk) ==
    IF chk = "ok"
    THEN [st EXCEPT !.ReadOps = @ + 1]
    ELSE IF chk # "nodata"
         THEN [st EXCEPT !.ReadErrors = @ + 1]
         ELSE st

\* The switch of Job without its write and read cases.
SelectOpsIgnoresMode(m) == {"mutate", "validate"}

\* The switch of Job, lines 267-279: the operations an iteration may run.
\* In mixed mode p.Rand.Intn(100000) % 2 picks one of the two.
SelectOps(m) ==
    IF m = writeMode THEN {"mutate"}
    ELSE IF m = readMode THEN {"validate"}
    ELSE {"mutate", "validate"}

\* The test of line 281 never succeeding.
BatchDueNever(n) == FALSE

\* The test of line 281 succeeding at the last index of each thousand.
BatchDueAtEnd(n) == (n + 1) % BatchSize = 0

\* Line 281: the periodic handoff is due after the operation of iteration n.
BatchDue(n) == n % BatchSize = 0

\* Line 285: the worker's own fail-fast exit.
LocalFailFast(ff, st) == ff /\ st.ReadErrors > 0

\* The reporter's decision testing the write failures instead.
ShouldTripOnWriteErrors(ff, total) == total.WriteErrors > 0 /\ ff

\* The reporter's decision without the failFast test.
ShouldTripIgnoresFlag(ff, total) == total.ReadErrors > 0

\* The reporter's decision tripping on write failures as well.
ShouldTripOnAnyError(ff, total) ==
    (total.ReadErrors > 0 \/ total.WriteErrors > 0) /\ ff

\* Lines 202-208: the reporter's fail-fast decision on the merged total.
ShouldTrip(ff, total) == total.ReadErrors > 0 /\ ff

\* What the collaborators may return in this run.
GenOutcomes(s) == IF s = "mutateFails" THEN {"ok"} ELSE GenResults
MutateOutcomes(s) == IF s = "mutateFails" THEN {"err"} ELSE MutateResults

\* Lines 162-166 without the stride i*maxRange.
PartitionRangeNoStride(li, minRange, maxRange) ==
    [Min |-> minRange + li, Max |-> maxRange + li]

\* Lines 162-166: the bounds of the PartitionRange of inner-loop index li.
PartitionRange(li, minRange, maxRange) ==
    [Min |-> minRange + li * maxRange, Max |-> maxRange + li * maxRange]

\* Lines 160-169 run to the end: the ranges in launch order, each with the
\* table it was built for and the worker goroutine it was passed to.
RECURSIVE Launched(_, _, _)
Launched(nt, c, pk) ==
    IF nt = 0 THEN <<>>
    ELSE Launched(nt - 1, c, pk) \o
         [k \in 1..c |-> [table |-> nt, owner |-> (nt - 1) * c + k,
                          range |-> PartitionRange(k - 1, 0, pk)]]

Workers == DOMAIN wpc
Sending == {"send_batch", "send_final"}

\* ------------------------------------------------------------------ Init
\* The history of a run of the workers ws in which nothing has happened yet.
NoHistory(ws) ==
    [started        |-> 0,      \* operations started (bounded by MaxOps)
     mutIters       |-> 0,      \* mutationJob calls completed
     valIters       |-> 0,      \* validationJob calls not ending in "no data"
     sent           |-> Zero,   \* field-wise sum of the counters sent on c
     finalFlush     |-> {},     \* workers whose send of line 291 completed
     cancelWorkers  |-> <<>>,   \* callers of cancelWorkers, in order
     cancelReporter |-> <<>>,   \* callers of cancelReporter, in order
     exitedOn       |-> "none", \* the select case the reporter returned from
     readFailed     |-> {},     \* workers whose Check returned a real error
     pendingIters   |-> [w \in ws |-> 0],  \* iterations since w's last reset
     handoffs       |-> [w \in ws |-> 0],  \* periodic handoffs w completed
     lateOps        |-> [w \in ws |-> 0],  \* operations w ended under cancellation
     genFailed      |-> 0,      \* GenMutateStmt calls that returned an error
     mutateCalls    |-> 0,      \* Session.Mutate calls
     mutateFailed   |-> 0,      \* Session.Mutate calls that returned an error
     checkOk        |-> 0,      \* Session.Check calls that returned nil
     noData         |-> 0]      \* Session.Check calls that returned "no data"

\* The state when runJob reaches workers.Wait() (line 214): every goroutine
\* has been started and none has run yet.
Init ==
    /\ mode \in Modes
    /\ failFast \in BOOLEAN
    /\ session \in Sessions
    /\ \E n \in 0..MaxWorkers :
          /\ wpc = [w \in 1..n |-> "select"]
          /\ testStatus = [w \in 1..n |-> Zero]
          /\ i = [w \in 1..n |-> 0]
          /\ workers = n
          /\ tables = 1
          /\ concurrency = n
          /\ pkNumberPerThread = 1
          /\ p = Launched(tables, concurrency, pkNumberPerThread)
          /\ tableIdx = tables
          /\ launchI = 0
    /\ order = <<>>
    /\ testRes = Zero
    /\ apc = "select"
    /\ timerFired = FALSE
    /\ workerCtx = FALSE
    /\ reporterCtx = FALSE
    /\ reporter = 1
    /\ cpc = "wait_workers"
    /\ hist = NoHistory(DOMAIN wpc)

\* ---------------------------------------------------------------- worker
\* Job, lines 262-266, cancellation observed: return, and the deferred wg.Done.
WorkerCancelled(w) ==
    /\ wpc[w] = "select"
    /\ workerCtx
    /\ wpc' = [wpc EXCEPT ![w] = "done"]
    /\ workers' = workers - 1
    /\ UNCHANGED <<cfgVars, testStatus, i, testRes, apc, timerFired, workerCtx,
                   reporterCtx, reporter, cpc, hist>>

\* The select of line 262 taking the default case whatever ctx says.
WorkerProceedIgnoresCancel(w) ==
    /\ wpc[w] = "select"
    /\ hist.started < MaxOps
    /\ wpc' = [wpc EXCEPT ![w] = "op"]
    /\ hist' = [hist EXCEPT !.started = @ + 1]
    /\ UNCHANGED <<cfgVars, testStatus, i, testRes, apc, timerFired, workerCtx,
                   reporterCtx, workers, reporter, cpc>>

\* Job, lines 262-266, default case: the iteration starts.
WorkerProceed(w) ==
    /\ wpc[w] = "select"
    /\ ~workerCtx
    /\ hist.started < MaxOps
    /\ wpc' = [wpc EXCEPT ![w] = "op"]
    /\ hist' = [hist EXCEPT !.started = @ + 1]
    /\ UNCHANGED <<cfgVars, testStatus, i, testRes, apc, timerFired, workerCtx,
                   reporterCtx, workers, reporter, cpc>>

\* Job, lines 285-289: break to the final handoff of line 291, or i++ and
\* back to the select of line 262.
EndOfIteration(ff, st) == IF LocalFailFast(ff, st) THEN "send_final" ELSE "select"

\* Where Job goes after the operation of iteration n: the send of line 282
\* when a handoff is due, the end of the iteration otherwise.
AfterOp(ff, n, st) == IF BatchDue(n) THEN "send_batch" ELSE EndOfIteration(ff, st)

\* Line 288: i++ unless the loop was left or the worker is parked in a send.
NextIndex(n, pos) == IF pos = "select" THEN n + 1 ELSE n

\* Job, lines 267-289: one operation, then the tests of lines 281 and 285.
WorkerMutate(w) ==
    /\ wpc[w] = "op"
    /\ "mutate" \in SelectOps(mode)
    /\ \E gen \in GenOutcomes(session) :
       \E mut \in IF MutateCalled(gen) THEN MutateOutcomes(session) ELSE {"none"} :
          /\ testStatus' = [testStatus EXCEPT ![w] = mutationJob(@, gen, mut)]
          /\ hist' = [hist EXCEPT
                        !.mutIters = @ + 1,
                        !.pendingIters[w] = @ + 1,
                        !.lateOps[w] = IF workerCtx THEN @ + 1 ELSE @,
                        !.genFailed = IF gen = "err" THEN @ + 1 ELSE @,
                        !.mutateCalls = IF MutateCalled(gen) THEN @ + 1 ELSE @,
                        !.mutateFailed = IF mut = "err" THEN @ + 1 ELSE @]
    /\ wpc' = [wpc EXCEPT ![w] = AfterOp(failFast, i[w], testStatus'[w])]
    /\ i' = [i EXCEPT ![w] = NextIndex(@, wpc'[w])]
    /\ UNCHANGED <<cfgVars, testRes, apc, timerFired, workerCtx, reporterCtx,
                   workers, reporter, cpc>>

WorkerValidate(w) ==
    /\ wpc[w] = "op"
    /\ "validate" \in SelectOps(mode)
    /\ \E chk \in CheckResults :
          /\ testStatus' = [testStatus EXCEPT ![w] = validationJob(@, chk)]
          /\ hist' = [hist EXCEPT
                        !.valIters = @ + (IF chk = "nodata" THEN 0 ELSE 1),
                        !.readFailed = IF chk = "err" THEN @ \cup {w} ELSE @,
                        !.checkOk = IF chk = "ok" THEN @ + 1 ELSE @,
                        !.noData = IF chk = "nodata" THEN @ + 1 ELSE @,
                        !.pendingIters[w] = @ + 1,
                        !.lateOps[w] = IF workerCtx THEN @ + 1 ELSE @]
    /\ wpc' = [wpc EXCEPT ![w] = AfterOp(failFast, i[w], testStatus'[w])]
    /\ i' = [i EXCEPT ![w] = NextIndex(@, wpc'[w])]
    /\ UNCHANGED <<cfgVars, testRes, apc, timerFired, workerCtx, reporterCtx,
                   workers, reporter, cpc>>

\* -------------------------------------------------------------- reporter
\* The timer of line 178 expires.
TimerFire ==
    /\ ~timerFired
    /\ apc # "done"
    /\ timerFired' = TRUE
    /\ UNCHANGED <<cfgVars, wpc, testStatus, i, testRes, apc, workerCtx,
                   reporterCtx, workers, reporter, cpc, hist>>

\* runJob, lines 189-193: deadline; cancelWorkers, return, reporter.Done.
ReporterDeadline ==
    /\ apc = "select"
    /\ timerFired
    /\ workerCtx' = TRUE
    /\ apc' = "done"
    /\ reporter' = reporter - 1
    /\ hist' = [hist EXCEPT !.cancelWorkers = Append(@, "deadline"),
                            !.exitedOn = "deadline"]
    /\ UNCHANGED <<cfgVars, wpc, testStatus, i, testRes, timerFired, reporterCtx,
                   workers, cpc>>

\* runJob, lines 194-196: stop requested by runJob; return, reporter.Done.
ReporterStop ==
    /\ apc = "select"
    /\ reporterCtx
    /\ apc' = "done"
    /\ reporter' = reporter - 1
    /\ hist' = [hist EXCEPT !.exitedOn = "stop"]
    /\ UNCHANGED <<cfgVars, wpc, testStatus, i, testRes, timerFired, workerCtx,
                   reporterCtx, workers, cpc>>

\* The handoff case without the return of line 207.
AfterMergeKeepsSelecting(ff, total) == "select"

\* The position of the reporter after the handoff case, lines 202-210.
AfterMerge(ff, total) == IF ShouldTrip(ff, total) THEN "done" ELSE "select"

\* Job line 282 or 291 meets runJob lines 197-198: worker w's send on c and the
\* reporter's receive and merge.  The worker goes on with lines 283-289
\* (reset, end of the iteration) or, after the final handoff, returns
\* (wg.Done); the reporter goes on to line 199.
Handoff(w) ==
    /\ apc = "select"
    /\ wpc[w] \in Sending
    /\ testRes' = Merge(testStatus[w], testRes)
    /\ apc' = "decide"
    /\ hist' = [hist EXCEPT
                  !.sent = Plus(@, testStatus[w]),
                  !.finalFlush = IF wpc[w] = "send_final" THEN @ \cup {w} ELSE @,
                  !.pendingIters[w] = IF wpc[w] = "send_batch" THEN 0 ELSE @,
                  !.handoffs[w] = IF wpc[w] = "send_batch" THEN @ + 1 ELSE @]
    /\ IF wpc[w] = "send_batch"
       THEN /\ testStatus' = [testStatus EXCEPT ![w] = Zero]
            /\ wpc' = [wpc EXCEPT ![w] = EndOfIteration(failFast, testStatus'[w])]
            /\ i' = [i EXCEPT ![w] = NextIndex(@, wpc'[w])]
            /\ workers' = workers
       ELSE /\ wpc' = [wpc EXCEPT ![w] = "done"]
            /\ UNCHANGED <<testStatus, i>>
            /\ workers' = workers - 1
    /\ UNCHANGED <<cfgVars, timerFired, workerCtx, reporterCtx, reporter, cpc>>

\* runJob, lines 199-210: the reporter's fail-fast decision on the total it
\* has just merged; cancelWorkers, return and reporter.Done, or back to the
\* select.
ReporterDecide ==
    /\ apc = "decide"
    /\ LET trip == ShouldTrip(failFast, testRes)
           next == AfterMerge(failFast, testRes)
       IN  /\ workerCtx' = (workerCtx \/ trip)
           /\ apc' = next
           /\ reporter' = IF next = "done" THEN reporter - 1 ELSE reporter
           /\ hist' = [hist EXCEPT
                  !.cancelWorkers = IF trip THEN Append(@, "failfast") ELSE @,
                  !.exitedOn = IF next = "done" THEN "failfast" ELSE @]
    /\ UNCHANGED <<cfgVars, wpc, testStatus, i, testRes, timerFired, reporterCtx,
                   workers, cpc>>

\* ----------------------------------------------------------- coordinator
\* cancelReporter() without the workers.Wait() before it.
CoordCancelReporterNoWait ==
    /\ cpc = "wait_workers"
    /\ reporterCtx' = TRUE
    /\ cpc' = "wait_reporter"
    /\ hist' = [hist EXCEPT !.cancelReporter = Append(@, "coordinator")]
    /\ UNCHANGED <<cfgVars, wpc, testStatus, i, testRes, apc, timerFired,
                   workerCtx, workers, reporter>>

\* runJob, lines 214-215: workers.Wait() returns, cancelReporter().
CoordCancelReporter ==
    /\ cpc = "wait_workers"
    /\ workers = 0
    /\ reporterCtx' = TRUE
    /\ cpc' = "wait_reporter"
    /\ hist' = [hist EXCEPT !.cancelReporter = Append(@, "coordinator")]
    /\ UNCHANGED <<cfgVars, wpc, testStatus, i, testRes, apc, timerFired,
                   workerCtx, workers, reporter>>

\* runJob, lines 216-217: reporter.Wait() returns, runJob returns.
CoordReturn ==
    /\ cpc = "wait_reporter"
    /\ reporter = 0
    /\ cpc' = "returned"
    /\ UNCHANGED <<cfgVars, wpc, testStatus, i, testRes, apc, timerFired,
                   workerCtx, reporterCtx, workers, reporter, hist>>

Next ==
    \/ \E w \in Workers : WorkerCancelled(w)
    \/ \E w \in Workers : WorkerProceed(w)
    \/ \E w \in Workers : WorkerMutate(w)
    \/ \E w \in Workers : WorkerValidate(w)
    \/ \E w \in Workers : Handoff(w)
    \/ TimerFire
    \/ ReporterDecide
    \/ ReporterDeadline
    \/ ReporterStop
    \/ CoordCancelReporter
    \/ CoordReturn

Spec == Init /\ [][Next]_vars

\* The steps worker w takes on its own (everything but the rendezvous on c).
WorkerStep(w) ==
    \/ WorkerCancelled(w)
    \/ WorkerProceed(w)
    \/ WorkerMutate(w)
    \/ WorkerValidate(w)

\* Scheduling: every goroutine that can take a step eventually takes it, the
\* timer eventually expires, and a sender parked on c is eventually received
\* from while the reporter keeps selecting (c's senders queue in order).
Fairness ==
    /\ \A w \in 1..MaxWorkers :
          /\ WF_vars(w \in Workers /\ WorkerStep(w))
          /\ WF_vars(w \in Workers /\ Handoff(w))
    /\ WF_vars(TimerFire)
    /\ WF_vars(ReporterDecide \/ ReporterDeadline \/ ReporterStop)
    /\ WF_vars(CoordCancelReporter \/ CoordReturn)

\* The runs with --fail-fast set, under fair scheduling.  Every mutation has
\* the one outcome of the "mutateFails" session; what Check returns is free.
FailFastInit == Init /\ failFast /\ session = "mutateFails"

FailFastFairSpec == FailFastInit /\ [][Next]_vars /\ Fairness

\* ----------------------------------------------------------- launch loop
\* runJob at line 160: the flags are read, the channel and the worker context
\* exist, workers.Add has run (line 158), no goroutine has been started.
LaunchInit ==
    /\ mode = mixedMode
    /\ failFast \in BOOLEAN
    /\ session = "arbitrary"
    /\ tables \in 0..MaxTables
    /\ concurrency \in 0..MaxConcurrency
    /\ pkNumberPerThread \in 0..MaxPk
    /\ p = <<>>
    /\ tableIdx = 0
    /\ launchI = 0
    /\ order = <<>>
    /\ wpc = <<>>
    /\ testStatus = <<>>
    /\ i = <<>>
    /\ workers = tables * concurrency
    /\ testRes = Zero
    /\ apc = "unstarted"
    /\ timerFired = FALSE
    /\ workerCtx = FALSE
    /\ reporterCtx = FALSE
    /\ reporter = 0
    /\ cpc = "launch"
    /\ hist = NoHistory(DOMAIN wpc)

\* Lines 161-168, one pass of the inner loop: build the PartitionRange of
\* index launchI and start a worker goroutine on it.
LaunchWorker ==
    /\ cpc = "launch"
    /\ tableIdx < tables
    /\ launchI < concurrency
    /\ p' = Append(p, [table |-> tableIdx + 1, owner |-> Len(wpc) + 1,
                       range |-> PartitionRange(launchI, 0, pkNumberPerThread)])
    /\ wpc' = Append(wpc, "select")
    /\ testStatus' = Append(testStatus, Zero)
    /\ i' = Append(i, 0)
    /\ launchI' = launchI + 1
    /\ hist' = [hist EXCEPT !.pendingIters = Append(@, 0),
                            !.handoffs = Append(@, 0),
                            !.lateOps = Append(@, 0)]
    /\ UNCHANGED <<mode, failFast, session, tables, concurrency,
                   pkNumberPerThread, tableIdx, order, testRes, apc, timerFired,
                   workerCtx, reporterCtx, workers, reporter, cpc>>

\* Lines 160-161: the inner loop is over, the outer loop takes the next table.
NextTable ==
    /\ cpc = "launch"
    /\ tableIdx < tables
    /\ launchI = concurrency
    /\ tableIdx' = tableIdx + 1
    /\ launchI' = 0
    /\ UNCHANGED <<mode, failFast, session, tables, concurrency,
                   pkNumberPerThread, p, order, wpc, testStatus, i, testRes, apc,
                   timerFired, workerCtx, reporterCtx, workers, reporter, cpc,
                   hist>>

\* Lines 171-214: the outer loop is over; reporter.Add(1), the reporter
\* goroutine is started and runJob reaches workers.Wait().
LaunchReporter ==
    /\ cpc = "launch"
    /\ tableIdx = tables
    /\ reporter' = reporter + 1
    /\ apc' = "select"
    /\ cpc' = "wait_workers"
    /\ UNCHANGED <<cfgVars, wpc, testStatus, i, testRes, timerFired, workerCtx,
                   reporterCtx, workers, hist>>

LaunchNext ==
    \/ LaunchWorker
    \/ NextTable
    \/ LaunchReporter

PartitionSpec == LaunchInit /\ [][LaunchNext]_vars

\* ---------------------------------------------------------- Status.Merge
\* The Status values a worker can hold, up to MaxCount operations.
Counters ==
    {st \in [{"WriteOps", "WriteErrors", "ReadOps", "ReadErrors"} -> 0..MaxCount] :
        st.WriteOps + st.WriteErrors + st.ReadOps + st.ReadErrors <= MaxCount}

\* Three workers, each parked in a send on c with some counter; the reporter
\* is in its select, its total still zero; no fail-fast, no deadline yet.
MergeInit ==
    /\ mode = mixedMode
    /\ failFast = FALSE
    /\ session = "arbitrary"
    /\ tables = 1
    /\ concurrency = 3
    /\ pkNumberPerThread = 1
    /\ p = Launched(tables, concurrency, pkNumberPerThread)
    /\ tableIdx = tables
    /\ launchI = 0
    /\ order = <<>>
    /\ wpc = [w \in 1..3 |-> "send_final"]
    /\ testStatus \in [1..3 -> Counters]
    /\ i = [w \in 1..3 |-> 1]
    /\ workers = 3
    /\ testRes = Zero
    /\ apc = "select"
    /\ timerFired = FALSE
    /\ workerCtx = FALSE
    /\ reporterCtx = FALSE
    /\ reporter = 1
    /\ cpc = "wait_workers"
    /\ hist = NoHistory(DOMAIN wpc)

\* runJob, lines 197-198, taken alone: the reporter receives the counter of
\* worker w, whichever w the channel delivers next, and merges it.
MergeOne(w) ==
    /\ \A k \in DOMAIN order : order[k] # w
    /\ testRes' = Merge(testStatus[w], testRes)
    /\ order' = Append(order, w)
    /\ UNCHANGED <<mode, failFast, session, launchVars, wpc, testStatus, i, apc,
                   timerFired, workerCtx, reporterCtx, workers, reporter, cpc,
                   hist>>

MergeNext == \E w \in Workers : MergeOne(w)

MergeSpec == MergeInit /\ [][MergeNext]_vars

\* ---------------------------------------------------------------- claims
Blocked(w) == wpc[w] \in Sending /\ apc = "done"
Exited(w) == wpc[w] = "done"

\* Iteration n follows one that ended with the periodic handoff.
AfterHandoff(n) == n > 0 /\ BatchDue(n - 1)

\* The counter of w that has not been handed to the reporter.
Pending(w) == IF w \in hist.finalFlush THEN Zero ELSE testStatus[w]

RECURSIVE SumPending(_)
SumPending(S) ==
    IF S = {} THEN Zero
    ELSE LET w == CHOOSE x \in S : TRUE
         IN  Plus(Pending(w), SumPending(S \ {w}))

\* C1: every run of runJob terminates: short of runJob having returned, some
\* goroutine can always take a step, so no worker stays blocked on c forever.
C1_RunJobTerminates ==
    cpc = "returned" \/ ENABLED Next

\* C2: whenever the reporter has exited, every worker has already exited.
C2_ReporterOutlivesWorkers ==
    apc = "done" => \A w \in Workers : Exited(w)

\* C3: a worker that has exited (wg.Done) has handed its pending counter over
\* in a final send first, whatever made it exit.
C3_FinalFlushBeforeDone ==
    \A w \in Workers : Exited(w) => w \in hist.finalFlush

\* C4: conservation: when the reporter has printed its total at the deadline
\* and no worker can run any further operation, the total's WriteOps +
\* WriteErrors is the number of mutate iterations executed and its ReadOps +
\* ReadErrors the number of validate iterations that did not end in "no data".
C4_Conservation ==
    (/\ hist.exitedOn = "deadline"
     /\ \A w \in Workers : Exited(w) \/ Blocked(w))
    => /\ testRes.WriteOps + testRes.WriteErrors = hist.mutIters
       /\ testRes.ReadOps + testRes.ReadErrors = hist.valIters

\* C5: the reporter's total is the field-wise sum of the counters whose send
\* on c has completed, and a worker that is back from a periodic handoff
\* (line 283) and has not finished its next operation holds a zero counter.
C5_NoLossNoDoubleCount ==
    /\ testRes = hist.sent
    /\ \A w \in Workers :
          (wpc[w] \in {"select", "op"} /\ AfterHandoff(i[w]))
          => testStatus[w] = Zero

C5_Witness ==
    /\ testRes.WriteOps + testRes.ReadOps + testRes.WriteErrors + testRes.ReadErrors >= 2
    /\ \E w \in Workers :
          wpc[w] = "select" /\ AfterHandoff(i[w]) /\ i[w] > 1

\* C6: with fail-fast on, once the reporter has handled a handoff and its
\* total shows a read failure the worker cancellation signal is raised (the
\* handling of the handoff carrying the failure raises it, unless it was
\* raised before), and a read failure in any worker's counter leads to the
\* signal being raised.
C6_FailFastTrip ==
    /\ []((failFast /\ testRes.ReadErrors > 0 /\ apc # "decide") => workerCtx)
    /\ ((failFast /\ \E w \in Workers : testStatus[w].ReadErrors > 0) ~> workerCtx)

C6_Witness ==
    /\ failFast
    /\ hist.cancelWorkers = <<"failfast">>
    /\ testRes.ReadErrors > 0
    /\ ~timerFired

\* C7: with fail-fast off and at least one worker, until the timer fires the
\* worker cancellation signal is not raised, no worker has exited, the
\* reporter has not completed and runJob is still waiting for the workers.
C7_NothingEndsRunBeforeDeadline ==
    (~failFast /\ Workers # {} /\ ~timerFired)
    => /\ ~workerCtx
       /\ \A w \in Workers : ~Exited(w)
       /\ apc # "done"
       /\ cpc = "wait_workers"

C7_Witness ==
    /\ ~failFast
    /\ Workers # {}
    /\ ~timerFired
    /\ testRes.ReadErrors > 0
    /\ testRes.WriteErrors > 0
    /\ \E w \in Workers : i[w] > 0

\* C8 as stated: when runJob has returned, each of the two cancellation
\* signals has been raised exactly once.
C8_EachSignalRaisedExactlyOnce ==
    cpc = "returned"
    => Len(hist.cancelWorkers) = 1 /\ Len(hist.cancelReporter) = 1

\* C8 amended: each signal is raised at most once; the worker signal only by
\* the reporter in the step in which it returns (deadline or fail-fast), the
\* reporter signal only by runJob once the worker barrier is at zero; with at
\* least one worker the worker signal has been raised exactly once when the
\* reporter has exited, and the reporter signal exactly once when runJob has
\* returned.
C8_SignalsRaisedAtMostOnce ==
    /\ [](/\ Len(hist.cancelWorkers) <= 1
          /\ Len(hist.cancelReporter) <= 1
          /\ workerCtx <=> Len(hist.cancelWorkers) = 1
          /\ reporterCtx <=> Len(hist.cancelReporter) = 1
          /\ (apc = "done" /\ Workers # {}) => Len(hist.cancelWorkers) = 1
          /\ cpc = "returned" => Len(hist.cancelReporter) = 1)
    /\ [][/\ workerCtx' # workerCtx
             => /\ apc # "done" /\ apc' = "done"
                /\ hist'.exitedOn \in {"deadline", "failfast"}
          /\ reporterCtx' # reporterCtx
             => cpc = "wait_workers" /\ cpc' = "wait_reporter" /\ workers = 0]_vars

C8_Witness ==
    /\ cpc = "returned"
    /\ hist.cancelWorkers = <<"failfast">>
    /\ hist.cancelReporter = <<"coordinator">>
    /\ Cardinality(Workers) = 2

\* C9: in write mode every local counter, the sum of the handed-off counters
\* and the total have ReadOps = 0 and ReadErrors = 0; in read mode they have
\* WriteOps = 0 and WriteErrors = 0.
C9_ModeExclusivity ==
    LET counters == {testStatus[w] : w \in Workers} \cup {testRes, hist.sent}
    IN  /\ mode = writeMode
           => \A s \in counters : s.ReadOps = 0 /\ s.ReadErrors = 0
        /\ mode = readMode
           => \A s \in counters : s.WriteOps = 0 /\ s.WriteErrors = 0

C9_Witness ==
    /\ mode = writeMode
    /\ testRes.WriteOps > 0
    /\ \E w \in Workers : testStatus[w].WriteErrors > 0
    /\ hist.started = MaxOps

Keys(r) == r.Min .. (r.Max - 1)

\* The ranges built for table t.
RangesOf(t) == {k \in DOMAIN p : p[k].table = t}

\* C11: when the launch loop is over, with concurrency >= 1 and
\* pkNumberPerThread >= 1 (and their product within int), the ranges built
\* for each table are concurrency many, pairwise disjoint, and cover exactly
\* 0 .. concurrency*pkNumberPerThread - 1; tables * concurrency ranges were
\* built, and the ranges and the workers are in one-to-one correspondence.
C11_PartitionDisjointness ==
    (cpc # "launch" /\ concurrency >= 1 /\ pkNumberPerThread >= 1) =>
       /\ \A t \in 1..tables :
             /\ Cardinality(RangesOf(t)) = concurrency
             /\ \A k1, k2 \in RangesOf(t) :
                   k1 # k2 => Keys(p[k1].range) \cap Keys(p[k2].range) = {}
             /\ UNION {Keys(p[k].range) : k \in RangesOf(t)}
                   = 0 .. (concurrency * pkNumberPerThread - 1)
       /\ Len(p) = tables * concurrency
       /\ \A k \in DOMAIN p : p[k].table \in 1..tables
       /\ \A w \in Workers : Cardinality({k \in DOMAIN p : p[k].owner = w}) = 1
       /\ \A k \in DOMAIN p : p[k].owner \in Workers

C11_Witness ==
    /\ cpc = "wait_workers"
    /\ tables = 2 /\ concurrency = 3 /\ pkNumberPerThread = 2
    /\ Len(p) = 6
    /\ \E k \in DOMAIN p : p[k].range = [Min |-> 4, Max |-> 6]

\* Field-wise sum of the counters of the workers in S.
RECURSIVE SumOver(_)
SumOver(S) ==
    IF S = {} THEN Zero
    ELSE LET w == CHOOSE x \in S : TRUE
         IN  Plus(testStatus[w], SumOver(S \ {w}))

\* C12: Merge adds field by field, is commutative and associative on the
\* counters a, b, c held by three workers, and the reporter's total after
\* merging some of them, in whatever order they arrived, is the field-wise sum
\* of the counters merged: it depends on which counters were received only.
C12_MergeAlgebra ==
    LET a == testStatus[1]
        b == testStatus[2]
        c == testStatus[3]
    IN  /\ Merge(a, b) = [WriteOps    |-> a.WriteOps + b.WriteOps,
                          WriteErrors |-> a.WriteErrors + b.WriteErrors,
                          ReadOps     |-> a.ReadOps + b.ReadOps,
                          ReadErrors  |-> a.ReadErrors + b.ReadErrors]
        /\ Merge(a, b) = Merge(b, a)
        /\ Merge(a, Merge(b, c)) = Merge(Merge(a, b), c)
        /\ Merge(c, Merge(b, a)) = Merge(a, Merge(b, c))
        /\ testRes = SumOver({order[k] : k \in DOMAIN order})

C12_Witness ==
    /\ order = <<3, 1, 2>>
    /\ testStatus[1] = [Zero EXCEPT !.WriteOps = 1, !.ReadErrors = 1]
    /\ testStatus[2] = [Zero EXCEPT !.ReadOps = 2]
    /\ testStatus[3] = [Zero EXCEPT !.WriteErrors = 1, !.ReadErrors = 1]
    /\ testRes = [WriteOps |-> 1, WriteErrors |-> 1, ReadOps |-> 2, ReadErrors |-> 2]

\* C13: the reporter's stop signal is raised only when every worker has
\* returned (the workers wait group, which counts the workers that have not,
\* is at zero); the reporter leaves through its stop case only when no worker
\* is running; runJob has returned only when every worker and the reporter
\* have.
C13_TwoPhaseShutdown ==
    /\ workers = Cardinality({w \in Workers : ~Exited(w)})
    /\ reporter = (IF apc = "done" THEN 0 ELSE 1)
    /\ reporterCtx => \A w \in Workers : Exited(w)
    /\ hist.exitedOn = "stop" => \A w \in Workers : Exited(w)
    /\ cpc = "returned" => /\ \A w \in Workers : Exited(w)
                           /\ apc = "done"
                           /\ reporterCtx

C13_Witness ==
    /\ cpc = "returned"
    /\ Cardinality(Workers) = 2
    /\ hist.started = MaxOps
    /\ reporterCtx
    /\ hist.cancelReporter = <<"coordinator">>

\* C14: a handoff only adds the counter received to the total; when the
\* reporter has handled it, it has raised the worker cancellation signal and
\* returned if failFast is set and the merged total shows a read failure, and
\* otherwise it has raised nothing and is back in its select.
C14_ReporterFailFastDecision ==
    [][/\ (apc = "select" /\ apc' = "decide")
          => /\ \E w \in Workers : testRes' = Plus(testRes, testStatus[w])
             /\ workerCtx' = workerCtx
             /\ hist'.cancelWorkers = hist.cancelWorkers
       /\ (apc = "decide" /\ apc' # "decide")
          => /\ testRes' = testRes
             /\ IF failFast /\ testRes.ReadErrors > 0
                THEN /\ apc' = "done"
                     /\ workerCtx'
                     /\ hist'.cancelWorkers = Append(hist.cancelWorkers, "failfast")
                ELSE /\ apc' = "select"
                     /\ workerCtx' = workerCtx
                     /\ hist'.cancelWorkers = hist.cancelWorkers]_vars

C14_Witness ==
    /\ failFast
    /\ hist.exitedOn = "failfast"
    /\ testRes.ReadErrors > 0
    /\ testRes.WriteErrors > 0
    /\ hist.cancelWorkers = <<"failfast">>
    /\ \E w \in Workers : wpc[w] = "op"

\* C15: with fail-fast on, a worker whose Check has returned an error other
\* than "no data" runs no further operation.
C15_NoOperationAfterReadFailure ==
    failFast => \A w \in hist.readFailed : wpc[w] # "op"

\* C16: the worker cancellation signal, once raised, stays raised; while it is
\* raised no worker passes its check into an operation, a worker at its check
\* can only return, and a worker that has returned does nothing more; so each
\* worker ends at most one operation under the signal, the one it was in when
\* the signal was raised.
C16_CancellationBetweenIterations ==
    /\ [](\A w \in Workers : hist.lateOps[w] <= 1)
    /\ [][/\ workerCtx => workerCtx'
          /\ \A w \in Workers :
                /\ (workerCtx /\ wpc[w] = "select") => wpc'[w] \in {"select", "done"}
                /\ (workerCtx /\ wpc'[w] = "op") => wpc[w] = "op"
                /\ wpc[w] = "done" => wpc'[w] = "done"]_vars

C16_Witness ==
    /\ workerCtx
    /\ Cardinality(Workers) = 2
    /\ hist.lateOps[1] = 1 /\ wpc[1] = "done"
    /\ hist.lateOps[2] = 0 /\ wpc[2] = "done"
    /\ 1 \notin hist.finalFlush

\* C17: the counter a worker holds accounts for at most one batch: at most
\* BatchSize iterations have run since the worker's last reset (none, and the
\* counter is zero, right after a periodic handoff), and the counter holds
\* nothing but the outcomes of those iterations.
C17_BatchBound ==
    \A w \in Workers :
       LET n == hist.pendingIters[w]
           st == testStatus[w]
       IN  /\ n <= BatchSize
           /\ st.WriteOps <= n
           /\ st.WriteErrors <= n
           /\ st.ReadOps + st.ReadErrors <= n
           /\ (st.WriteOps > 0 \/ st.WriteErrors > 0) => st.ReadOps + st.ReadErrors < n
           /\ n = 0 => st = Zero
           /\ (wpc[w] = "select" /\ i[w] > 0) => n = (i[w] - 1) % BatchSize

C17_Witness ==
    \E w \in Workers :
       /\ wpc[w] = "send_batch"
       /\ i[w] = BatchSize
       /\ hist.pendingIters[w] = BatchSize
       /\ hist.handoffs[w] = 1
       /\ testStatus[w].ReadOps = BatchSize

\* C18: in every step that runs mutationJob, only the worker's own counter
\* changes and its read fields stay; if the generation failed, WriteErrors
\* went up by one, WriteOps stayed and Session.Mutate was not called;
\* otherwise Session.Mutate was called once, WriteOps went up by one and
\* WriteErrors went up by one exactly if the call failed; and the worker goes
\* on with its loop (the periodic handoff, or the next check).
C18_MutateAccounting ==
    [][hist'.mutIters # hist.mutIters =>
         \E w \in Workers :
            LET a     == testStatus[w]
                b     == testStatus'[w]
                dGen  == hist'.genFailed - hist.genFailed
                dCall == hist'.mutateCalls - hist.mutateCalls
                dFail == hist'.mutateFailed - hist.mutateFailed
            IN  /\ wpc[w] = "op"
                /\ \A v \in Workers \ {w} : testStatus'[v] = testStatus[v]
                /\ testRes' = testRes
                /\ b.ReadOps = a.ReadOps /\ b.ReadErrors = a.ReadErrors
                /\ dGen \in {0, 1} /\ dCall \in {0, 1} /\ dFail \in {0, 1}
                /\ dGen = 1 => /\ b.WriteErrors = a.WriteErrors + 1
                               /\ b.WriteOps = a.WriteOps
                               /\ dCall = 0 /\ dFail = 0
                /\ dGen = 0 => /\ dCall = 1
                               /\ b.WriteOps = a.WriteOps + 1
                               /\ b.WriteErrors = a.WriteErrors + dFail
                /\ wpc'[w] \in {"select", "send_batch"}]_vars

C18_Witness ==
    /\ hist.genFailed = 1 /\ hist.mutateCalls = 2 /\ hist.mutateFailed = 1
    /\ testRes = [Zero EXCEPT !.WriteErrors = 1]
    /\ \E w \in Workers :
          /\ testStatus[w] = [Zero EXCEPT !.WriteOps = 2, !.WriteErrors = 1]
          /\ wpc[w] = "send_batch"

\* C19: in every step that runs validationJob, only the worker's own counter
\* changes: not at all if Check returned "no data", by one in ReadOps only if
\* it returned nil, by one in ReadErrors only otherwise; a "no data" result
\* does not send the worker to its fail-fast exit, and as long as no Check has
\* returned a real error neither the local nor the reporter's fail-fast has
\* happened.
C19_ValidateAccounting ==
    /\ [](hist.readFailed = {} =>
             /\ \A w \in Workers : wpc[w] # "send_final" /\ w \notin hist.finalFlush
             /\ \A k \in DOMAIN hist.cancelWorkers : hist.cancelWorkers[k] # "failfast"
             /\ hist.exitedOn # "failfast")
    /\ [][(hist'.valIters # hist.valIters \/ hist'.noData # hist.noData) =>
             \E w \in Workers :
                LET a   == testStatus[w]
                    b   == testStatus'[w]
                    dOk == hist'.checkOk - hist.checkOk
                    dNo == hist'.noData - hist.noData
                IN  /\ wpc[w] = "op"
                    /\ \A v \in Workers \ {w} : testStatus'[v] = testStatus[v]
                    /\ testRes' = testRes
                    /\ dOk \in {0, 1} /\ dNo \in {0, 1} /\ dOk + dNo <= 1
                    /\ dNo = 1 => /\ b = a
                                  /\ wpc'[w] \in {"select", "send_batch"}
                                  /\ hist'.readFailed = hist.readFailed
                    /\ dOk = 1 => b = [a EXCEPT !.ReadOps = @ + 1]
                    /\ dOk + dNo = 0 => /\ b = [a EXCEPT !.ReadErrors = @ + 1]
                                        /\ w \in hist'.readFailed]_vars

C19_Witness ==
    /\ failFast
    /\ hist.noData = 2 /\ hist.checkOk = 1
    /\ hist.readFailed = {}
    /\ ~workerCtx
    /\ \E w \in Workers :
          /\ testStatus[w] = [Zero EXCEPT !.ReadOps = 1]
          /\ hist.pendingIters[w] = 2

\* C20: a worker is in a periodic handoff only at an index that is a multiple
\* of BatchSize; its first one, at index 0, carries the one iteration run so
\* far and every later one carries BatchSize iterations; a worker whose first
\* handoff the reporter has not received is still at index 0, so it has not
\* started a second operation.
C20_HandoffSchedule ==
    \A w \in Workers :
       /\ wpc[w] = "send_batch" =>
             /\ i[w] % BatchSize = 0
             /\ hist.handoffs[w] = i[w] \div BatchSize
             /\ hist.pendingIters[w] = (IF i[w] = 0 THEN 1 ELSE BatchSize)
       /\ hist.handoffs[w] = 0 => i[w] = 0
       /\ (wpc[w] = "op" /\ i[w] = 0) => hist.pendingIters[w] = 0
       /\ (wpc[w] \in {"select", "op"} /\ i[w] > 0) =>
             hist.handoffs[w] = 1 + ((i[w] - 1) \div BatchSize)

C20_Witness ==
    /\ mode = readMode
    /\ \E w \in Workers :
          /\ wpc[w] = "select"
          /\ i[w] = BatchSize + 1
          /\ hist.handoffs[w] = 2
          /\ hist.sent.ReadOps = BatchSize + 1
          /\ testRes.ReadOps = BatchSize + 1

====
